---- MODULE Spec2Model ----
(***************************************************************************)
(* A model of virtualpiano-rs: the sheet parser (parse_tokens,             *)
(* parse_sheet), the duration allocator (calculate_token_durations) and    *)
(* the playback loop (play_sheet, main).                                   *)
(*                                                                         *)
(* Text is a sequence of one-character strings.  An f64 is modelled as an  *)
(* exact rational <<n, d>> with d > 0 in lowest terms: the arithmetic is   *)
(* that of the reals, NaN and the infinities are not in the domain.        *)
(***************************************************************************)
EXTENDS Integers, Sequences, FiniteSets, TLC

VARIABLES
    \* parse_tokens: the characters of the line consumed so far, the locals
    \* of the scan, and where the call stands.
    input, scan, scan_pc,
    \* parse_sheet: the lines the iterator has yielded so far, the locals of
    \* the loop, where the call stands and what it returned.
    lines, tokens, defines, last_line_empty, sheet_pc, sheet_result,
    \* calculate_token_durations: its two arguments and its result.
    multiplier, pause_distribution, dur_pc, dur_result,
    \* main and play_sheet: the sheets loaded, where main stands, the lines
    \* read from stdin so far, the clone handed to play_sheet with its
    \* durations, the key calls and sleeps of the pass so far, and the
    \* passes started so far (the choice of each and, once it returned, its
    \* calls).
    songs, main_pc, choices, song, durations, trace, played

scanVars == <<input, scan, scan_pc>>
sheetVars == <<lines, tokens, defines, last_line_empty, sheet_pc, sheet_result>>
durVars == <<multiplier, pause_distribution, dur_pc, dur_result>>
playVars == <<songs, main_pc, choices, song, durations, trace, played>>
vars == <<scanVars, sheetVars, durVars, playVars>>

\* What a step of one component leaves alone.
notScan == <<sheetVars, durVars, playVars>>
notSheet == <<scanVars, durVars, playVars>>
notDur == <<scanVars, sheetVars, playVars>>
notPlay == <<scanVars, sheetVars, durVars>>

----------------------------------------------------------------------------
(* Bounds of the model.                                                    *)

\* The longest content line parse_tokens is given.
MaxLen == 5
\* The most lines the line iterator yields to parse_sheet.
MaxLines == 4
\* The most tokens of a loaded sheet.
MaxTokens == 2
\* The most lines main reads from stdin.
MaxChoices == 2

----------------------------------------------------------------------------
(* f64 as exact rationals.                                                 *)

Abs(x) == IF x < 0 THEN -x ELSE x

RECURSIVE GCD(_, _)
GCD(a, b) == IF b = 0 THEN a ELSE GCD(b, a % b)

\* The rational n/d (d # 0) in lowest terms with a positive denominator.
Rat(n, d) ==
    LET g == GCD(Abs(n), Abs(d))
        s == IF d < 0 THEN -1 ELSE 1
    IN  <<(s * n) \div g, (s * d) \div g>>

RInt(n) == <<n, 1>>
RAdd(a, b) == Rat(a[1] * b[2] + b[1] * a[2], a[2] * b[2])
RSub(a, b) == Rat(a[1] * b[2] - b[1] * a[2], a[2] * b[2])
RMul(a, b) == Rat(a[1] * b[1], a[2] * b[2])
RDiv(a, b) == Rat(a[1] * b[2], a[2] * b[1])
RLe(a, b) == a[1] * b[2] <= b[1] * a[2]
RLt(a, b) == a[1] * b[2] < b[1] * a[2]
REq(a, b) == a[1] * b[2] = b[1] * a[2]

----------------------------------------------------------------------------
(* Tokens.                                                                 *)

ShortPause == [kind |-> "ShortPause", keys |-> <<>>]
Pause == [kind |-> "Pause", keys |-> <<>>]
LongPause == [kind |-> "LongPause", keys |-> <<>>]
Single(key) == [kind |-> "Single", keys |-> <<key>>]
Many(keys) == [kind |-> "Many", keys |-> keys]
ManyFast(keys) == [kind |-> "ManyFast", keys |-> keys]

\* Option<Vec<Key>>
None == [some |-> FALSE, keys |-> <<>>]
Some(keys) == [some |-> TRUE, keys |-> keys]

----------------------------------------------------------------------------
(* parse_tokens: one step per character of the line.                       *)

ErrCloseWhileNotOpen == "Attempted to close while not open"
ErrCloseInvalidBlock == "Attempted to close invalid key block"

\* The characters a content line is drawn from: the four markers and two keys.
Chars == {"[", "]", "|", " ", "A", "B"}

\* A bug: the scan of a line entered with a group open.
ScanStartOpen(output) ==
    [in_many |-> TRUE, in_many_fast |-> FALSE, group |-> Some(<<>>),
     output |-> output, err |-> ""]

\* The locals of parse_tokens on entry, with the caller's output vector.
ScanStart(output) ==
    [in_many |-> FALSE, in_many_fast |-> FALSE, group |-> None,
     output |-> output, err |-> ""]

\* A bug: the group allocated without the flag.
OpenGroupNoFlag(st) == [st EXCEPT !.group = Some(<<>>)]

\* '[' => { in_many = true; group = Some(Vec::new()); }
OpenGroup(st) == [st EXCEPT !.in_many = TRUE, !.group = Some(<<>>)]

\* A bug: the token kinds of the two branches exchanged.
CloseGroupSwapped(st) ==
    IF st.group.some
    THEN IF st.in_many_fast
         THEN [st EXCEPT !.group = None, !.in_many = FALSE, !.in_many_fast = FALSE,
                         !.output = Append(@, Many(st.group.keys))]
         ELSE IF st.in_many
         THEN [st EXCEPT !.group = None, !.in_many = FALSE, !.in_many_fast = FALSE,
                         !.output = Append(@, ManyFast(st.group.keys))]
         ELSE [st EXCEPT !.group = None, !.err = ErrCloseWhileNotOpen]
    ELSE [st EXCEPT !.err = ErrCloseInvalidBlock]

\* ']': group.take(), then a token by the flags, or an error.
CloseGroup(st) ==
    IF st.group.some
    THEN IF st.in_many_fast
         THEN [st EXCEPT !.group = None, !.in_many = FALSE, !.in_many_fast = FALSE,
                         !.output = Append(@, ManyFast(st.group.keys))]
         ELSE IF st.in_many
         THEN [st EXCEPT !.group = None, !.in_many = FALSE, !.in_many_fast = FALSE,
                         !.output = Append(@, Many(st.group.keys))]
         ELSE [st EXCEPT !.group = None, !.err = ErrCloseWhileNotOpen]
    ELSE [st EXCEPT !.err = ErrCloseInvalidBlock]

\* A bug: the pause of an open group held back with its keys.
PauseCharInGroup(st) ==
    IF st.group.some
    THEN [st EXCEPT !.group = Some(Append(st.group.keys, "|"))]
    ELSE [st EXCEPT !.output = Append(@, Pause)]

\* '|' => output.push(Token::Pause)
PauseChar(st) == [st EXCEPT !.output = Append(@, Pause)]

\* ' ': inside a group it marks the group fast, outside it is a short pause.
SpaceChar(st) ==
    IF st.in_many
    THEN [st EXCEPT !.in_many_fast = TRUE]
    ELSE [st EXCEPT !.output = Append(@, ShortPause)]

\* Any other character: a key of the pending group, or a single press.
KeyChar(st, c) ==
    IF st.group.some
    THEN [st EXCEPT !.group = Some(Append(st.group.keys, c))]
    ELSE [st EXCEPT !.output = Append(@, Single(c))]

\* The body of the loop over the characters: the match on one character.
ScanChar(st, c) ==
    CASE c = "[" -> OpenGroup(st)
      [] c = "]" -> CloseGroup(st)
      [] c = "|" -> PauseChar(st)
      [] c = " " -> SpaceChar(st)
      [] OTHER -> KeyChar(st, c)

\* parse_tokens(output, line): the loop, left at the first error.
RECURSIVE ScanFrom(_, _, _)
ScanFrom(st, line, i) ==
    IF i > Len(line) \/ st.err # ""
    THEN st
    ELSE ScanFrom(ScanChar(st, line[i]), line, i + 1)

ParseTokens(output, line) == ScanFrom(ScanStart(output), line, 1)

\* The output vectors parse_tokens is entered with in the scan specification.
ScanOutputs == {<<>>, <<LongPause>>, <<Single("A"), ShortPause>>}

ScanIdle == input = <<>> /\ scan = ScanStart(<<>>) /\ scan_pc = "idle"

ScanInit ==
    /\ input = <<>>
    /\ \E output \in ScanOutputs : scan = ScanStart(output)
    /\ scan_pc = "scan"

\* The loop takes the next character of the line.
ScanStep ==
    /\ scan_pc = "scan"
    /\ Len(input) < MaxLen
    /\ \E c \in Chars :
        /\ input' = Append(input, c)
        /\ scan' = ScanChar(scan, c)
        /\ scan_pc' = IF scan'.err # "" THEN "err" ELSE "scan"
    /\ UNCHANGED notScan

\* The line is exhausted (it is never empty): Ok(()).
ScanEnd ==
    /\ scan_pc = "scan"
    /\ input # <<>>
    /\ scan_pc' = "ok"
    /\ UNCHANGED <<input, scan>>
    /\ UNCHANGED notScan

----------------------------------------------------------------------------
(* parse_sheet: one step per line the iterator yields, one for the header. *)

ErrDefinePair == "Defines must be a name and value pair"
ErrNoLength == "Sheet length must be defined"
ErrLengthFormat == "Invalid sheet length format"
ErrLengthMinutes == "Invalid sheet length minutes"
ErrLengthSeconds == "Invalid sheet length seconds"

LengthKey == <<"#", "l", "e", "n", "g", "t", "h">>
TitleKey == <<"#", "t", "i", "t", "l", "e">>
WriterKey == <<"#", "w", "r", "i", "t", "e", "r">>

\* Option<String>
NoneStr == [some |-> FALSE, val |-> <<>>]
SomeStr(s) == [some |-> TRUE, val |-> s]

\* The place of the first c in s, 0 when there is none.
IndexOf(s, c) ==
    IF \E i \in 1..Len(s) : s[i] = c
    THEN CHOOSE i \in 1..Len(s) : s[i] = c /\ \A j \in 1..(i - 1) : s[j] # c
    ELSE 0

\* str::split_once: the text before and after the first c.
SplitOnce(s, c) ==
    LET i == IndexOf(s, c)
    IN  IF i = 0
        THEN [found |-> FALSE, k |-> <<>>, v |-> <<>>]
        ELSE [found |-> TRUE, k |-> SubSeq(s, 1, i - 1), v |-> SubSeq(s, i + 1, Len(s))]

Digits == {"0", "1", "2", "3", "4", "5", "6", "7", "8", "9"}

DigitVal(c) ==
    CASE c = "0" -> 0 [] c = "1" -> 1 [] c = "2" -> 2 [] c = "3" -> 3 [] c = "4" -> 4
      [] c = "5" -> 5 [] c = "6" -> 6 [] c = "7" -> 7 [] c = "8" -> 8 [] c = "9" -> 9

RECURSIVE DecimalVal(_)
DecimalVal(s) ==
    IF s = <<>> THEN 0
    ELSE 10 * DecimalVal(SubSeq(s, 1, Len(s) - 1)) + DigitVal(s[Len(s)])

\* str::parse::<f64> on the texts of the model: an optional sign and one or
\* more decimal digits is a number, anything else (the empty text, a lone
\* sign, a letter, a ':') is an error.
ParseF64(s) ==
    LET signed == s # <<>> /\ s[1] \in {"-", "+"}
        body == IF signed THEN Tail(s) ELSE s
    IN  IF body # <<>> /\ \A i \in 1..Len(body) : body[i] \in Digits
        THEN [ok |-> TRUE,
              val |-> RInt(IF signed /\ s[1] = "-" THEN -DecimalVal(body)
                                                   ELSE DecimalVal(body))]
        ELSE [ok |-> FALSE, val |-> RInt(0)]

\* HashMap<&str, &str>
NoDefines == [k \in {} |-> <<>>]
\* A bug: the first value of a key kept.
InsertKeepFirst(map, k, v) ==
    [x \in (DOMAIN map) \cup {k} |-> IF x \in DOMAIN map THEN map[x] ELSE v]
Insert(map, k, v) == [x \in (DOMAIN map) \cup {k} |-> IF x = k THEN v ELSE map[x]]
Get(map, k) == IF k \in DOMAIN map THEN SomeStr(map[k]) ELSE NoneStr

\* A bug: the minutes not scaled to seconds.
SheetLengthUnscaled(defs) ==
    IF LengthKey \notin DOMAIN defs
    THEN [ok |-> FALSE, err |-> ErrNoLength, length |-> RInt(0)]
    ELSE LET parts == SplitOnce(defs[LengthKey], ":")
             mins == ParseF64(parts.k)
             secs == ParseF64(parts.v)
         IN  IF ~parts.found
             THEN [ok |-> FALSE, err |-> ErrLengthFormat, length |-> RInt(0)]
             ELSE IF ~mins.ok
             THEN [ok |-> FALSE, err |-> ErrLengthMinutes, length |-> RInt(0)]
             ELSE IF ~secs.ok
             THEN [ok |-> FALSE, err |-> ErrLengthSeconds, length |-> RInt(0)]
             ELSE [ok |-> TRUE, err |-> "", length |-> RAdd(mins.val, secs.val)]

\* let length = match defines.get("#length") { ... }
SheetLength(defs) ==
    IF LengthKey \notin DOMAIN defs
    THEN [ok |-> FALSE, err |-> ErrNoLength, length |-> RInt(0)]
    ELSE LET parts == SplitOnce(defs[LengthKey], ":")
             mins == ParseF64(parts.k)
             secs == ParseF64(parts.v)
         IN  IF ~parts.found
             THEN [ok |-> FALSE, err |-> ErrLengthFormat, length |-> RInt(0)]
             ELSE IF ~mins.ok
             THEN [ok |-> FALSE, err |-> ErrLengthMinutes, length |-> RInt(0)]
             ELSE IF ~secs.ok
             THEN [ok |-> FALSE, err |-> ErrLengthSeconds, length |-> RInt(0)]
             ELSE [ok |-> TRUE, err |-> "",
                   length |-> RAdd(RMul(mins.val, RInt(60)), secs.val)]

\* let header = Header { title, writer, length }
MakeHeader(defs, length) ==
    [title |-> Get(defs, TitleKey), writer |-> Get(defs, WriterKey), length |-> length]

NoSheet == [header |-> [title |-> NoneStr, writer |-> NoneStr, length |-> RInt(0)],
            tokens |-> <<>>]
SheetOk(sheet) == [ok |-> TRUE, err |-> "", sheet |-> sheet]
\* A bug: the tokens parsed so far returned beside the error.
SheetErrPartial(msg) ==
    [ok |-> FALSE, err |-> msg, sheet |-> [NoSheet EXCEPT !.tokens = tokens]]
SheetErr(msg) == [ok |-> FALSE, err |-> msg, sheet |-> NoSheet]

\* A bug: the run-start flag ignored.
BlankTokensEach(toks, last_empty) == Append(toks, LongPause)

\* if !last_line_empty { tokens.push(Token::LongPause); }
BlankTokens(toks, last_empty) ==
    IF ~last_empty THEN Append(toks, LongPause) ELSE toks

\* The values of the length define in the model.
LengthValues ==
    { <<"1", ":", "3", "0">>, <<"1", "3", "0">>, <<"1", ":", "x">>,
      <<"x", ":", "x">>, <<"-", "1", ":", "3", "0">> }

\* The define lines of the model: a length, two titles, a writer, and a line
\* with no space.
DefineLines ==
    { LengthKey \o <<" ">> \o v : v \in LengthValues }
      \cup { TitleKey \o <<" ", "T">>, TitleKey \o <<" ", "U">>,
             WriterKey \o <<" ", "W">>, TitleKey }

\* The content lines of the model.
ContentLines ==
    { <<"A", "|", "B">>, <<"[", "A", " ", "B", "]">>, <<"[", "]">>, <<"]">>,
      <<"[", "A">> }

SheetIdle ==
    /\ lines = <<>>
    /\ tokens = <<>>
    /\ defines = NoDefines
    /\ last_line_empty = FALSE
    /\ sheet_pc = "idle"
    /\ sheet_result = SheetErr("")

SheetInit ==
    /\ lines = <<>>
    /\ tokens = <<>>
    /\ defines = NoDefines
    /\ last_line_empty = FALSE
    /\ sheet_pc = "lines"
    /\ sheet_result = SheetErr("")

\* The iterator yields an empty line.
BlankLine ==
    /\ sheet_pc = "lines"
    /\ Len(lines) < MaxLines
    /\ lines' = Append(lines, <<>>)
    /\ tokens' = BlankTokens(tokens, last_line_empty)
    /\ last_line_empty' = TRUE
    /\ UNCHANGED <<defines, sheet_pc, sheet_result>>
    /\ UNCHANGED notSheet

\* The iterator yields a line whose first character is '#'.
DefineLine ==
    /\ sheet_pc = "lines"
    /\ Len(lines) < MaxLines
    /\ \E line \in DefineLines :
        LET kv == SplitOnce(line, " ")
        IN  /\ lines' = Append(lines, line)
            /\ last_line_empty' = FALSE
            /\ IF kv.found
               THEN /\ defines' = Insert(defines, kv.k, kv.v)
                    /\ UNCHANGED <<sheet_pc, sheet_result>>
               ELSE /\ sheet_pc' = "err"
                    /\ sheet_result' = SheetErr(ErrDefinePair)
                    /\ UNCHANGED defines
            /\ UNCHANGED tokens
    /\ UNCHANGED notSheet

\* The iterator yields any other line: parse_tokens(&mut tokens, line).
ContentLine ==
    /\ sheet_pc = "lines"
    /\ Len(lines) < MaxLines
    /\ \E line \in ContentLines :
        LET st == ParseTokens(tokens, line)
        IN  /\ lines' = Append(lines, line)
            /\ last_line_empty' = FALSE
            /\ IF st.err = ""
               THEN /\ tokens' = st.output
                    /\ UNCHANGED <<sheet_pc, sheet_result>>
               ELSE /\ sheet_pc' = "err"
                    /\ sheet_result' = SheetErr(st.err)
                    /\ UNCHANGED tokens
            /\ UNCHANGED defines
    /\ UNCHANGED notSheet

\* The iterator is exhausted: the length, the header, Ok(Sheet).
EndOfInput ==
    /\ sheet_pc = "lines"
    /\ LET len == SheetLength(defines)
       IN  IF len.ok
           THEN /\ sheet_pc' = "done"
                /\ sheet_result' =
                     SheetOk([header |-> MakeHeader(defines, len.length),
                              tokens |-> tokens])
           ELSE /\ sheet_pc' = "err"
                /\ sheet_result' = SheetErr(len.err)
    /\ UNCHANGED <<lines, tokens, defines, last_line_empty>>
    /\ UNCHANGED notSheet

----------------------------------------------------------------------------
(* calculate_token_durations.                                              *)

ErrPauseRatio == "Note-pause ratio must be greater than zero."
ErrDistributionSum == "Pause distribution percentages must add up to 1.0"
ErrManyFast == "many_fast_proportion must be between 0.0 and 1.0"

R0 == RInt(0)
R1 == RInt(1)

NoDurations ==
    [short_pause |-> R0, pause |-> R0, long_pause |-> R0, single |-> R0, many_fast |-> R0]
DurationsOk(d) == [ok |-> TRUE, err |-> "", durations |-> d]
DurationsErr(msg) == [ok |-> FALSE, err |-> msg, durations |-> NoDurations]

\* A bug: the range of many_fast_proportion checked before the sum.
ValidateRangeFirst(pd) ==
    IF RLe(pd.pause_ratio, R0) THEN ErrPauseRatio
    ELSE IF RLt(pd.many_fast_proportion, R0) \/ RLt(R1, pd.many_fast_proportion)
    THEN ErrManyFast
    ELSE IF ~REq(RAdd(RAdd(pd.short, pd.standard), pd.long), R1)
    THEN ErrDistributionSum
    ELSE ""

\* The three checks, in the order of the code; "" when all pass.
Validate(pd) ==
    IF RLe(pd.pause_ratio, R0) THEN ErrPauseRatio
    ELSE IF ~REq(RAdd(RAdd(pd.short, pd.standard), pd.long), R1)
    THEN ErrDistributionSum
    ELSE IF RLt(pd.many_fast_proportion, R0) \/ RLt(R1, pd.many_fast_proportion)
    THEN ErrManyFast
    ELSE ""

\* A bug: the remaining proportion with its operands exchanged.
AllocateNegated(mult, pd) ==
    LET note_proportion == RDiv(pd.pause_ratio, RAdd(pd.pause_ratio, R1))
        pause_proportion == RSub(R1, note_proportion)
        remaining_proportion == RSub(pd.many_fast_proportion, R1)
        pause_time == RMul(pause_proportion, remaining_proportion)
    IN  [short_pause |-> RMul(pause_time, pd.short),
         pause |-> RMul(pause_time, pd.standard),
         long_pause |-> RMul(pause_time, pd.long),
         single |-> RMul(RMul(note_proportion, remaining_proportion), mult),
         many_fast |-> RMul(pd.many_fast_proportion, mult)]

\* The five durations of a distribution that passed the checks.
Allocate(mult, pd) ==
    LET note_proportion == RDiv(pd.pause_ratio, RAdd(pd.pause_ratio, R1))
        pause_proportion == RSub(R1, note_proportion)
        remaining_proportion == RSub(R1, pd.many_fast_proportion)
        pause_time == RMul(pause_proportion, remaining_proportion)
    IN  [short_pause |-> RMul(pause_time, pd.short),
         pause |-> RMul(pause_time, pd.standard),
         long_pause |-> RMul(pause_time, pd.long),
         single |-> RMul(RMul(note_proportion, remaining_proportion), mult),
         many_fast |-> RMul(pd.many_fast_proportion, mult)]

CalculateTokenDurations(mult, pd) ==
    LET err == Validate(pd)
    IN  IF err # "" THEN DurationsErr(err) ELSE DurationsOk(Allocate(mult, pd))

\* The values the fields of a distribution and the multiplier are drawn from.
Proportions == {Rat(-1, 2), R0, Rat(1, 5), Rat(3, 10), Rat(1, 2), R1}
PauseRatios == {RInt(-1), R0, R1, RInt(20)}
ManyFastProportions == {Rat(-1, 2), R0, Rat(3, 20), R1, Rat(3, 2)}
Multipliers == {RInt(-1), R0, R1, RInt(2)}

NoDistribution ==
    [short |-> R0, standard |-> R0, long |-> R0, pause_ratio |-> R0,
     many_fast_proportion |-> R0]

DurIdle ==
    /\ multiplier = R0
    /\ pause_distribution = NoDistribution
    /\ dur_pc = "idle"
    /\ dur_result = DurationsErr("")

DurInit ==
    /\ multiplier \in Multipliers
    /\ pause_distribution \in
         [short : Proportions, standard : Proportions, long : Proportions,
          pause_ratio : PauseRatios, many_fast_proportion : ManyFastProportions]
    /\ dur_pc = "call"
    /\ dur_result = DurationsErr("")

\* The call returns.
Calculate ==
    /\ dur_pc = "call"
    /\ dur_result' = CalculateTokenDurations(multiplier, pause_distribution)
    /\ dur_pc' = "ret"
    /\ UNCHANGED <<multiplier, pause_distribution>>
    /\ UNCHANGED notDur

----------------------------------------------------------------------------
(* main and play_sheet: one step per line read from stdin, per key call    *)
(* and per sleep.                                                          *)

\* let pause_distribution = sheet::PauseDistribution { ... } of main.
MainDistribution ==
    [short |-> Rat(1, 5), standard |-> Rat(3, 10), long |-> Rat(1, 2),
     pause_ratio |-> RInt(20), many_fast_proportion |-> Rat(3, 20)]

\* The key calls and the sleep of one token, in the order of the code.
Press(k) == [op |-> "press", key |-> k, dur |-> R0]
Release(k) == [op |-> "release", key |-> k, dur |-> R0]
Sleep(d) == [op |-> "sleep", key |-> "", dur |-> d]

RECURSIVE PressAll(_)
PressAll(keys) ==
    IF keys = <<>> THEN <<>> ELSE <<Press(Head(keys))>> \o PressAll(Tail(keys))

RECURSIVE ReleaseAll(_)
ReleaseAll(keys) ==
    IF keys = <<>> THEN <<>> ELSE <<Release(Head(keys))>> \o ReleaseAll(Tail(keys))

\* A bug: the release of each key forgotten.
OneByOneUnreleased(keys, d) ==
    [i \in 1..(2 * Len(keys)) |->
        IF i % 2 = 1 THEN Press(keys[(i + 1) \div 2]) ELSE Sleep(d)]

RECURSIVE OneByOne(_, _)
OneByOne(keys, d) ==
    IF keys = <<>> THEN <<>>
    ELSE <<Press(Head(keys)), Sleep(d), Release(Head(keys))>> \o OneByOne(Tail(keys), d)

\* match token { ... }
TokenOps(token, d) ==
    CASE token.kind = "Single" ->
            <<Press(token.keys[1]), Sleep(d.single), Release(token.keys[1])>>
      [] token.kind = "ShortPause" -> <<Sleep(d.short_pause)>>
      [] token.kind = "Pause" -> <<Sleep(d.pause)>>
      [] token.kind = "LongPause" -> <<Sleep(d.long_pause)>>
      [] token.kind = "Many" ->
            PressAll(token.keys) \o <<Sleep(d.single)>> \o ReleaseAll(token.keys)
      [] token.kind = "ManyFast" -> OneByOne(token.keys, d.many_fast)

\* for token in music.tokens { ... }: the calls of a whole pass.
RECURSIVE PassOps(_, _)
PassOps(toks, d) ==
    IF toks = <<>> THEN <<>> ELSE TokenOps(Head(toks), d) \o PassOps(Tail(toks), d)

\* song.header.length / song.tokens.iter().count() as f64.  With no token the
\* quotient is infinite or NaN in the code; no step of the pass reads the
\* durations then, and the model holds 0 in its place.
MultiplierOf(sheet) ==
    IF sheet.tokens = <<>> THEN R0
    ELSE RDiv(sheet.header.length, RInt(Len(sheet.tokens)))

\* The tokens of the loaded sheets: every kind, and an arpeggio of seven keys.
PlayTokens ==
    { ShortPause, Pause, LongPause, Single("A"), Many(<<"A", "B">>),
      ManyFast(<<"A", "B">>), ManyFast(<<"A", "B", "A", "B", "A", "B", "A">>) }

RECURSIVE TokenSeqs(_)
TokenSeqs(n) ==
    IF n = 0 THEN {<<>>}
    ELSE LET shorter == TokenSeqs(n - 1)
         IN  shorter \cup {Append(ts, t) : ts \in shorter, t \in PlayTokens}

\* The lengths of the loaded sheets: '0:5', '1:30' and '-1:30'.
PlayLengths == {RInt(5), RInt(90), RInt(-30)}

\* The sheets parse_sheet returned for the files of the directory.
LoadedSheets ==
    { [header |-> [title |-> NoneStr, writer |-> NoneStr, length |-> len],
       tokens |-> ts] : len \in PlayLengths, ts \in TokenSeqs(MaxTokens) }

PlayIdle ==
    /\ songs = <<>>
    /\ main_pc = "idle"
    /\ choices = 0
    /\ song = NoSheet
    /\ durations = NoDurations
    /\ trace = <<>>
    /\ played = <<>>

\* The sheet of a second file of the directory: '1:30' and 'B|'.
OtherSheet ==
    [header |-> [title |-> NoneStr, writer |-> NoneStr, length |-> RInt(90)],
     tokens |-> <<Single("B"), Pause>>]

\* main after the directory is read: no song, one, or two.
PlayInit ==
    /\ songs \in {<<>>} \cup {<<s>> : s \in LoadedSheets}
                      \cup {<<s, OtherSheet>> : s \in LoadedSheets}
    /\ main_pc = "menu"
    /\ choices = 0
    /\ song = NoSheet
    /\ durations = NoDurations
    /\ trace = <<>>
    /\ played = <<>>

\* if songs.is_empty() { ...; break; }
MenuNoSongs ==
    /\ main_pc = "menu"
    /\ songs = <<>>
    /\ main_pc' = "exit"
    /\ UNCHANGED <<songs, choices, song, durations, trace, played>>
    /\ UNCHANGED notPlay

\* The line read is no number: continue.
MenuNotANumber ==
    /\ main_pc = "menu"
    /\ songs # <<>>
    /\ choices < MaxChoices
    /\ choices' = choices + 1
    /\ UNCHANGED <<songs, main_pc, song, durations, trace, played>>
    /\ UNCHANGED notPlay

\* choice == songs.len() + 1: break.
MenuExit ==
    /\ main_pc = "menu"
    /\ songs # <<>>
    /\ choices < MaxChoices
    /\ choices' = choices + 1
    /\ main_pc' = "exit"
    /\ UNCHANGED <<songs, song, durations, trace, played>>
    /\ UNCHANGED notPlay

\* A number that is neither a song nor the exit: "Invalid choice".
MenuInvalidChoice ==
    /\ main_pc = "menu"
    /\ songs # <<>>
    /\ choices < MaxChoices
    /\ \E choice \in {0, Len(songs) + 2} :
        /\ ~(choice > 0 /\ choice <= Len(songs))
        /\ choice # Len(songs) + 1
    /\ choices' = choices + 1
    /\ UNCHANGED <<songs, main_pc, song, durations, trace, played>>
    /\ UNCHANGED notPlay

\* A bug: the tokens of the song taken out of the list for the pass.
AfterTake(list, choice) == [list EXCEPT ![choice].tokens = <<>>]

\* songs[choice - 1].clone(): the list after the clone is made.
AfterClone(list, choice) == list

\* The number of a song: clone it, compute its durations (unwrap), and enter
\* play_sheet up to the loop over the tokens.
MenuPlay ==
    /\ main_pc = "menu"
    /\ songs # <<>>
    /\ choices < MaxChoices
    /\ \E choice \in 1..Len(songs) :
        LET res == CalculateTokenDurations(MultiplierOf(songs[choice]), MainDistribution)
        IN  /\ song' = songs[choice]
            /\ songs' = AfterClone(songs, choice)
            /\ played' = Append(played, [choice |-> choice, returned |-> FALSE,
                                         calls |-> <<>>])
            /\ IF res.ok
               THEN main_pc' = "tokens" /\ durations' = res.durations
               ELSE main_pc' = "panic" /\ UNCHANGED durations
    /\ choices' = choices + 1
    /\ trace' = <<>>
    /\ UNCHANGED notPlay

\* The call the pass makes next, when one is left.
OpsLeft == Len(trace) < Len(PassOps(song.tokens, durations))
NextOp == PassOps(song.tokens, durations)[Len(trace) + 1]

\* _ = enigo.key(key, direction)
KeyCall ==
    /\ main_pc = "tokens"
    /\ OpsLeft
    /\ NextOp.op \in {"press", "release"}
    /\ trace' = Append(trace, NextOp)
    /\ UNCHANGED <<songs, main_pc, choices, song, durations, played>>
    /\ UNCHANGED notPlay

\* thread::sleep(time::Duration::from_secs_f64(d)); from_secs_f64 panics on
\* a negative d.
SleepCall ==
    /\ main_pc = "tokens"
    /\ OpsLeft
    /\ NextOp.op = "sleep"
    /\ IF RLe(R0, NextOp.dur)
       THEN trace' = Append(trace, NextOp) /\ UNCHANGED main_pc
       ELSE main_pc' = "panic" /\ UNCHANGED trace
    /\ UNCHANGED <<songs, choices, song, durations, played>>
    /\ UNCHANGED notPlay

\* The tokens are exhausted: play_sheet returns to the menu loop.
PlayReturn ==
    /\ main_pc = "tokens"
    /\ ~OpsLeft
    /\ main_pc' = "menu"
    /\ played' = [played EXCEPT ![Len(played)] =
                    [@ EXCEPT !.returned = TRUE, !.calls = trace]]
    /\ UNCHANGED <<songs, choices, song, durations, trace>>
    /\ UNCHANGED notPlay

----------------------------------------------------------------------------
(* The specifications.                                                     *)

ScanNext == ScanStep \/ ScanEnd
InitScan == ScanInit /\ SheetIdle /\ DurIdle /\ PlayIdle
SpecScan == InitScan /\ [][ScanNext]_vars

SheetNext == BlankLine \/ DefineLine \/ ContentLine \/ EndOfInput
InitSheet == SheetInit /\ ScanIdle /\ DurIdle /\ PlayIdle
SpecSheet == InitSheet /\ [][SheetNext]_vars

DurNext == Calculate
InitDur == DurInit /\ ScanIdle /\ SheetIdle /\ PlayIdle
SpecDur == InitDur /\ [][DurNext]_vars

PlayNext ==
    \/ MenuNoSongs \/ MenuNotANumber \/ MenuExit \/ MenuInvalidChoice \/ MenuPlay
    \/ KeyCall \/ SleepCall \/ PlayReturn
InitPlay == PlayInit /\ ScanIdle /\ SheetIdle /\ DurIdle
SpecPlay == InitPlay /\ [][PlayNext]_vars

----------------------------------------------------------------------------
(* What the claims say of a text, stated on the text alone.                *)

Last(s) == s[Len(s)]
Front(s) == SubSeq(s, 1, Len(s) - 1)

\* The places of character c in s.
Places(s, c) == {i \in 1..Len(s) : s[i] = c}
Max(S) == CHOOSE x \in S : \A y \in S : y <= x

\* Every '[' of s is closed by a ']' before any further '[' occurs.
ClosedBeforeReopen(s) ==
    \A i, j \in Places(s, "[") : i < j => \E k \in Places(s, "]") : i < k /\ k < j

\* The place of the '[' that a ']' following s would close, 0 when no group
\* is open at the end of s.
OpenPlace(s) ==
    LET opens == Places(s, "[")
    IN  IF opens = {} THEN 0
        ELSE IF \E k \in Places(s, "]") : k > Max(opens) THEN 0
        ELSE Max(opens)

\* The characters of s after the open group's '['.
Inside(s) == SubSeq(s, OpenPlace(s) + 1, Len(s))
IsKey(c) == c \notin {" ", "|"}

\* The token the claim gives the group open at the end of s.
GroupToken(s) ==
    IF Places(Inside(s), " ") = {}
    THEN Many(SelectSeq(Inside(s), IsKey))
    ELSE ManyFast(SelectSeq(Inside(s), IsKey))

\* The step of the scan that consumes character c.
Consumes(c) == scan_pc = "scan" /\ input' = Append(input, c)

\* C1: on a line where every '[' is closed before any further '[', a ']'
\* that closes a group emits exactly one token: its keys are the characters
\* between the '[' and the ']' other than space and '|', in order, and it is
\* Many when no space lies between them and ManyFast otherwise; a space
\* inside a group emits nothing and leaves the group open, its keys as
\* they were.
C1_GroupClose ==
    [][/\ (Consumes("]") /\ ClosedBeforeReopen(input) /\ OpenPlace(input) > 0)
            => /\ scan_pc' = "scan"
               /\ scan'.output = Append(scan.output, GroupToken(input))
       /\ (Consumes(" ") /\ ClosedBeforeReopen(input) /\ OpenPlace(input) > 0)
            => /\ scan'.output = scan.output
               /\ scan'.group = scan.group
               /\ scan'.group.some]_vars

\* The line "[B A]" has been scanned after a LongPause: the output gained
\* one token, a ManyFast of the two keys in their order.
C1_Witness ==
    /\ scan_pc = "ok"
    /\ input = <<"[", "B", " ", "A", "]">>
    /\ scan.output = <<LongPause, ManyFast(<<"B", "A">>)>>

\* No group is pending at the end of s: no '[' since the last ']'.
NoGroupPending(s) == OpenPlace(s) = 0

\* C3: a ']' scanned when no group is pending fails with "Attempted to close
\* while not open", and "Attempted to close invalid key block" is returned
\* for no input.
C3_CloseWithoutOpen ==
    /\ (scan_pc = "err" /\ Last(input) = "]" /\ NoGroupPending(Front(input)))
          => scan.err = ErrCloseWhileNotOpen
    /\ scan.err # ErrCloseInvalidBlock

\* The number of tokens of a kind.
CountKind(toks, kind) == Cardinality({i \in 1..Len(toks) : toks[i].kind = kind})

\* The number of maximal runs of consecutive empty lines.
EmptyRuns(ls) ==
    Cardinality({i \in 1..Len(ls) : ls[i] = <<>> /\ (i = 1 \/ ls[i - 1] # <<>>)})

\* C2: the LongPause tokens are as many as the maximal runs of consecutive
\* empty lines the iterator yielded: in the loop after every line, and in the
\* sheet returned.
C2_OneLongPausePerRun ==
    /\ sheet_pc = "lines" => CountKind(tokens, "LongPause") = EmptyRuns(lines)
    /\ sheet_pc = "done" =>
         CountKind(sheet_result.sheet.tokens, "LongPause") = EmptyRuns(lines)

\* A sheet was returned for an input with two consecutive empty lines between
\* two non-empty ones, and it holds one LongPause.
C2_Witness ==
    /\ sheet_pc = "done"
    /\ \E i \in 1..(Len(lines) - 3) :
          /\ lines[i] # <<>> /\ lines[i + 1] = <<>>
          /\ lines[i + 2] = <<>> /\ lines[i + 3] # <<>>
    /\ CountKind(sheet_result.sheet.tokens, "LongPause") = 1

\* C4: a returned sheet holds no Many and no ManyFast with no keys.
C4_NoEmptyGroup ==
    sheet_pc = "done" =>
        \A i \in 1..Len(sheet_result.sheet.tokens) :
            sheet_result.sheet.tokens[i].kind \in {"Many", "ManyFast"}
                => sheet_result.sheet.tokens[i].keys # <<>>

\* The step of parse_sheet taken when the iterator is exhausted.
SheetEnds == sheet_pc = "lines" /\ lines' = lines /\ sheet_pc' # "lines"

\* The lines that define the length: '#length', a space, a value.
LengthDefines(ls) ==
    {i \in 1..Len(ls) :
        /\ ls[i] # <<>>
        /\ SplitOnce(ls[i], " ").found
        /\ SplitOnce(ls[i], " ").k = LengthKey}

\* The value of the last of them.
LengthText(ls) == SplitOnce(ls[Max(LengthDefines(ls))], " ").v

\* A text that is a number: an optional sign, then decimal digits.
IsNumber(s) ==
    LET body == IF s # <<>> /\ s[1] \in {"-", "+"} THEN Tail(s) ELSE s
    IN  body # <<>> /\ \A i \in 1..Len(body) : body[i] \in Digits

\* C8: when the lines are consumed without error, parse_sheet fails if no
\* '#length' define exists, fails if its value has no ':', fails with the
\* minutes error if the text before the first ':' is no number, else with the
\* seconds error if the text after it is no number, and otherwise returns a
\* sheet whose length is minutes * 60 + seconds ('1:30' gives 90).
C8_Length ==
    [][SheetEnds =>
        IF LengthDefines(lines) = {}
        THEN sheet_pc' = "err" /\ sheet_result' = SheetErr(ErrNoLength)
        ELSE LET parts == SplitOnce(LengthText(lines), ":")
             IN  IF ~parts.found
                 THEN sheet_pc' = "err" /\ sheet_result' = SheetErr(ErrLengthFormat)
                 ELSE IF ~IsNumber(parts.k)
                 THEN sheet_pc' = "err" /\ sheet_result' = SheetErr(ErrLengthMinutes)
                 ELSE IF ~IsNumber(parts.v)
                 THEN sheet_pc' = "err" /\ sheet_result' = SheetErr(ErrLengthSeconds)
                 ELSE /\ sheet_pc' = "done"
                      /\ sheet_result'.ok
                      /\ REq(sheet_result'.sheet.header.length,
                             RAdd(RMul(ParseF64(parts.k).val, RInt(60)),
                                  ParseF64(parts.v).val))
                      /\ LengthText(lines) = <<"1", ":", "3", "0">>
                            => sheet_result'.sheet.header.length = RInt(90)]_vars

\* A sheet was returned for an input whose last length define is '1:30', and
\* its length is 90.
C8_Witness ==
    /\ sheet_pc = "done"
    /\ LengthDefines(lines) # {}
    /\ LengthText(lines) = <<"1", ":", "3", "0">>
    /\ sheet_result.sheet.header.length = RInt(90)

\* C9: a returned sheet has a length of at least 0.
C9_LengthNonNegative ==
    sheet_pc = "done" => RLe(R0, sheet_result.sheet.header.length)

C6_PauseSum ==
    (dur_pc = "ret" /\ dur_result.ok) =>
        LET pd == pause_distribution
            d == dur_result.durations
            note_share == RDiv(pd.pause_ratio, RAdd(pd.pause_ratio, R1))
        IN  REq(RAdd(d.short_pause, RAdd(d.pause, d.long_pause)),
                RMul(RMul(RSub(R1, pd.many_fast_proportion), RSub(R1, note_share)),
                     multiplier))

RECURSIVE Slept(_)
Slept(tr) ==
    IF tr = <<>> THEN R0
    ELSE RAdd(Slept(Front(tr)), IF Last(tr).op = "sleep" THEN Last(tr).dur ELSE R0)

\* A pass over the sheet has returned to the menu.
PassReturned == main_pc = "menu" /\ song # NoSheet

\* C10: for a sheet with at least one token (and a length of at least 0),
\* the sleeps of one pass, made with the durations of multiplier = length /
\* token count, sum to no more than the length of the sheet.
C10_FitsLength ==
    (PassReturned /\ song.tokens # <<>> /\ RLe(R0, song.header.length))
        => RLe(Slept(trace), song.header.length)

\* The characters that are keys: all but the four markers.
KeyChars == Chars \ {"[", "]", "|", " "}

\* C12: a '|' appends exactly one Pause to the output where it stands,
\* whether or not a group is open, and leaves in_many, in_many_fast and the
\* pending keys as they were; outside a group a key character appends a
\* Single of itself at once.  So "A|B" gives Single A, Pause, Single B, and
\* the Pause of "[A|B]" precedes the Many of the group.
C12_PauseAndSingle ==
    [][/\ Consumes("|")
            => /\ scan_pc' = "scan"
               /\ scan'.output = Append(scan.output, Pause)
               /\ scan'.in_many = scan.in_many
               /\ scan'.in_many_fast = scan.in_many_fast
               /\ scan'.group = scan.group
       /\ \A c \in KeyChars :
            (Consumes(c) /\ OpenPlace(input) = 0)
                => /\ scan_pc' = "scan"
                   /\ scan'.output = Append(scan.output, Single(c))
       /\ (Consumes("]") /\ input = <<"[", "A", "|", "B">>)
            => scan'.output = scan.output \o <<Many(<<"A", "B">>)>>
                 /\ Last(scan.output) = Pause]_vars

\* The line "A|B" has been scanned: three tokens in the order of the line.
C12_Witness ==
    /\ scan_pc = "ok"
    /\ input = <<"A", "|", "B">>
    /\ scan.output = <<Single("A"), Pause, Single("B")>>

\* C14: a '[' scanned while a group is open discards that group and emits
\* nothing; the token of the next ']' has the keys after the latest '[' and
\* is ManyFast only if a space follows the latest '[', else Many.
C14_ReopenDiscards ==
    [][/\ (Consumes("[") /\ OpenPlace(input) > 0) => scan'.output = scan.output
       /\ (Consumes("]") /\ OpenPlace(input) > 0 /\ ~ClosedBeforeReopen(input))
            => /\ scan_pc' = "scan"
               /\ scan'.output = Append(scan.output, GroupToken(input))]_vars

\* C19: at every point of the scan of a line a pending key sequence exists
\* exactly when in_many is set, and in_many_fast implies in_many; so the
\* scan never returns "Attempted to close while not open".
C19_GroupFlags ==
    /\ scan.group.some <=> scan.in_many
    /\ scan.in_many_fast => scan.in_many
    /\ scan.err # ErrCloseWhileNotOpen

\* The scan stands inside a fast group with a key pending, after a group of
\* the same line was closed.
C19_Witness ==
    /\ scan_pc = "scan"
    /\ input = <<"[", "]", "[", " ", "A">>
    /\ scan.in_many /\ scan.in_many_fast
    /\ scan.group = Some(<<"A">>)

\* The step of parse_sheet that consumes a line, and the line it consumes.
TakesLine == sheet_pc = "lines" /\ Len(lines') = Len(lines) + 1
IsDefine(l) == l # <<>> /\ l[1] = "#"
IsContent(l) == l # <<>> /\ l[1] # "#"

\* The define lines of a key with a value, and the value of the last one.
DefinesOf(ls, key) ==
    {i \in 1..Len(ls) :
        /\ IsDefine(ls[i])
        /\ SplitOnce(ls[i], " ").found
        /\ SplitOnce(ls[i], " ").k = key}
LastValue(ls, key) ==
    IF DefinesOf(ls, key) = {} THEN NoneStr
    ELSE SomeStr(SplitOnce(ls[Max(DefinesOf(ls, key))], " ").v)

\* C13: a line that starts with '#' adds no token; with no space in it the
\* parse fails with the define error, with one the parse goes on, also when
\* the key was defined before; the header of the sheet returned has, for
\* the title, the writer and the length, the value of the last line that
\* defines it.
C13_Defines ==
    [][/\ (TakesLine /\ IsDefine(Last(lines'))) =>
            /\ tokens' = tokens
            /\ IF Places(Last(lines'), " ") = {}
               THEN sheet_pc' = "err" /\ sheet_result' = SheetErr(ErrDefinePair)
               ELSE sheet_pc' = "lines"
       /\ (SheetEnds /\ sheet_pc' = "done") =>
            LET parts == SplitOnce(LastValue(lines, LengthKey).val, ":")
                header == sheet_result'.sheet.header
            IN  /\ header.title = LastValue(lines, TitleKey)
                /\ header.writer = LastValue(lines, WriterKey)
                /\ REq(header.length,
                       RAdd(RMul(ParseF64(parts.k).val, RInt(60)),
                            ParseF64(parts.v).val))
                /\ sheet_result'.sheet.tokens = tokens]_vars

\* A sheet was returned for an input that defines the title twice, T and
\* then U: its title is U.
C13_Witness ==
    /\ sheet_pc = "done"
    /\ \E i, j \in 1..Len(lines) :
          /\ i < j
          /\ lines[i] = TitleKey \o <<" ", "T">>
          /\ lines[j] = TitleKey \o <<" ", "U">>
    /\ sheet_result.sheet.header.title = SomeStr(<<"U">>)

\* A content line with a ']' that no '[' of the same line opens.
StrayClose(l) ==
    \E j \in Places(l, "]") : OpenPlace(SubSeq(l, 1, j - 1)) = 0

\* The lines that fail: a define with no space, a content line with a stray ']'.
LineFails(l) ==
    \/ IsDefine(l) /\ Places(l, " ") = {}
    \/ IsContent(l) /\ StrayClose(l)
Failing(ls) == {i \in 1..Len(ls) : LineFails(ls[i])}

LengthErrors == {ErrNoLength, ErrLengthFormat, ErrLengthMinutes, ErrLengthSeconds}

\* C16: parse_sheet fails at the first failing line with that line's error
\* and consumes no line after it; a length error is returned only when no
\* line failed; with an error it returns no sheet and no token.
C16_FirstError ==
    /\ sheet_pc \in {"lines", "done"} => Failing(lines) = {}
    /\ sheet_pc = "err" =>
         /\ ~sheet_result.ok
         /\ sheet_result.sheet = NoSheet
         /\ IF Failing(lines) = {}
            THEN sheet_result.err \in LengthErrors
            ELSE /\ Failing(lines) = {Len(lines)}
                 /\ sheet_result.err \notin LengthErrors
                 /\ IsDefine(Last(lines)) <=> sheet_result.err = ErrDefinePair

\* The parse failed at a stray ']' on the third line, after a token was
\* parsed and a length was defined whose value is no number.
C16_Witness ==
    /\ sheet_pc = "err"
    /\ lines = << <<"A", "|", "B">>, LengthKey \o <<" ", "x", ":", "x">>, <<"]">> >>
    /\ sheet_result.err # ErrLengthMinutes
    /\ sheet_result.sheet.tokens = <<>>

\* A sequence of n Pause tokens.
Pauses(n) == [i \in 1..n |-> Pause]

\* C18: every content line is scanned from a state with no group open: a
\* line with a ']' that no '[' of the same line opens fails whatever the
\* lines before it, any other line does not fail, and a line that is one
\* unclosed group adds no token for its keys (only the Pause of each '|').
C18_NoCarryOver ==
    [][(TakesLine /\ IsContent(Last(lines'))) =>
          LET l == Last(lines')
          IN  IF StrayClose(l)
              THEN sheet_pc' = "err"
              ELSE /\ sheet_pc' = "lines"
                   /\ (OpenPlace(l) = 1 /\ Places(l, "[") = {1})
                         => tokens' = tokens \o Pauses(Cardinality(Places(l, "|")))]_vars

\* The line "[A" was consumed without a token or an error, and the line "]"
\* after it failed.
C18_Witness ==
    /\ sheet_pc = "err"
    /\ lines = << <<"[", "A">>, <<"]">> >>
    /\ tokens = <<>>

\* The keys a pass can press, and how often key k is held after the calls tr.
PlayKeys == {"A", "B"}
Count(tr, op, k) == Cardinality({i \in 1..Len(tr) : tr[i].op = op /\ tr[i].key = k})
Held(tr, k) == Count(tr, "press", k) - Count(tr, "release", k)
HeldCount(tr) ==
    Cardinality({i \in 1..Len(tr) : tr[i].op = "press"})
        - Cardinality({i \in 1..Len(tr) : tr[i].op = "release"})

\* The number of calls the table of the driver gives a token, and the first
\* i tokens of a sheet.
Calls(token) ==
    CASE token.kind \in {"ShortPause", "Pause", "LongPause"} -> 1
      [] token.kind = "Single" -> 3
      [] token.kind = "Many" -> 2 * Len(token.keys) + 1
      [] token.kind = "ManyFast" -> 3 * Len(token.keys)

RECURSIVE CallsUpTo(_, _)
CallsUpTo(toks, i) ==
    IF i = 0 THEN 0 ELSE CallsUpTo(toks, i - 1) + Calls(toks[i])

\* The pass stands between two tokens; it stands inside token i.
BetweenTokens ==
    \E i \in 0..Len(song.tokens) : Len(trace) = CallsUpTo(song.tokens, i)
InProcess(i) ==
    /\ CallsUpTo(song.tokens, i - 1) < Len(trace)
    /\ Len(trace) < CallsUpTo(song.tokens, i)

\* C11: in a pass no key is released that is not held; when play_sheet has
\* returned every key was released as often as pressed; between two tokens
\* (so before and after every pause token) no key is held; inside a Single
\* or a ManyFast token at most one key is held.
C11_KeysReleased ==
    song # NoSheet =>
        /\ \A k \in PlayKeys : Held(trace, k) >= 0
        /\ PassReturned => \A k \in PlayKeys : Held(trace, k) = 0
        /\ BetweenTokens => HeldCount(trace) = 0
        /\ \A i \in 1..Len(song.tokens) :
              (InProcess(i) /\ song.tokens[i].kind \in {"Single", "ManyFast"})
                  => HeldCount(trace) <= 1

\* A pass over a Single and an arpeggio of two keys has returned after six
\* key calls.
C11_Witness ==
    /\ PassReturned
    /\ song.tokens = <<Single("A"), ManyFast(<<"A", "B">>)>>
    /\ Len(trace) = 9
    /\ Count(trace, "press", "A") = 2

\* The calls the table of the driver gives one token.
ExpectedOf(token, d) ==
    LET keys == token.keys
        n == Len(keys)
    IN  CASE token.kind = "ShortPause" -> <<Sleep(d.short_pause)>>
          [] token.kind = "Pause" -> <<Sleep(d.pause)>>
          [] token.kind = "LongPause" -> <<Sleep(d.long_pause)>>
          [] token.kind = "Single" ->
                <<Press(keys[1]), Sleep(d.single), Release(keys[1])>>
          [] token.kind = "Many" ->
                [i \in 1..(2 * n + 1) |->
                    IF i <= n THEN Press(keys[i])
                    ELSE IF i = n + 1 THEN Sleep(d.single)
                    ELSE Release(keys[i - n - 1])]
          [] token.kind = "ManyFast" ->
                [i \in 1..(3 * n) |->
                    LET k == keys[(i + 2) \div 3]
                    IN  CASE i % 3 = 1 -> Press(k)
                          [] i % 3 = 2 -> Sleep(d.many_fast)
                          [] i % 3 = 0 -> Release(k)]

\* The calls of a pass in which every token is processed once, in order.
Expected(toks, d) ==
    [n \in 1..CallsUpTo(toks, Len(toks)) |->
        LET i == CHOOSE i \in 1..Len(toks) :
                    CallsUpTo(toks, i - 1) < n /\ n <= CallsUpTo(toks, i)
        IN  ExpectedOf(toks[i], d)[n - CallsUpTo(toks, i - 1)]]

\* The calls made so far are the first of the expected ones, and all of them
\* once play_sheet has returned.
TraceAsTabled ==
    song # NoSheet =>
        /\ Len(trace) <= Len(Expected(song.tokens, durations))
        /\ trace = SubSeq(Expected(song.tokens, durations), 1, Len(trace))
        /\ PassReturned => trace = Expected(song.tokens, durations)

\* C15: a pass processes every token once, in the order of the sheet, with
\* the calls of the table (a pause: one sleep; Single: press, sleep single,
\* release; Many: press all, one sleep single, release all; ManyFast: per
\* key press, sleep many_fast, release), and it ends by returning, never by
\* a panic.
C15_PassTrace == main_pc # "panic" /\ TraceAsTabled

\* The key calls of a pass.
IsKeyCall(e) == e.op # "sleep"
KeyCalls(tr) == SelectSeq(tr, IsKeyCall)

\* Two passes that returned for the same choice made the same key calls.
SamePasses ==
    \A i, j \in 1..Len(played) :
        (played[i].returned /\ played[j].returned
            /\ played[i].choice = played[j].choice)
                => KeyCalls(played[i].calls) = KeyCalls(played[j].calls)

\* C17: no step of main or play_sheet changes the list of songs, so it stays
\* what was loaded after any choices, and two passes over the same song make
\* the same press and release calls.
C17_SheetsUnchanged == [][songs' = songs /\ SamePasses']_vars

\* The second song of two was played twice, each pass with key calls.
C17_Witness ==
    /\ Len(songs) = 2
    /\ Len(played) = 2
    /\ played[1].choice = 2 /\ played[2].choice = 2
    /\ played[1].returned /\ played[2].returned
    /\ KeyCalls(played[2].calls) # <<>>

====
